---- MODULE Spec2Model ----
(***************************************************************************)
(* Model of the chunk build (phase0_webscrape_preprocess/article_chunking) *)
(* and of the hybrid retrieval (phase1_search/search_text).                *)
(*                                                                         *)
(* Spec        : article_chunking.main, one run of the chunk build.        *)
(* SpecSearch  : search_text.main, one hybrid query over a chunk corpus.   *)
(***************************************************************************)
EXTENDS Integers, Sequences, FiniteSets

VARIABLES
    \* ---- article_chunking.py ----
    blog_file,       \* contents of BLOG_FILE: a list of article dicts
    chunk_size,      \* value of TEXT_CHUNK_SIZE used by the run
    chunk_overlap,   \* value of TEXT_CHUNK_OVERLAP used by the run
    posts,           \* main: posts (json.load result)
    chunked_posts,   \* main: chunked_posts
    post_idx,        \* main: number of posts the for loop has consumed
    post_text,       \* main: post_text of the last iteration
    windows,         \* value returned by the last sliding_window call
    output_file,     \* contents of OUTPUT_FILE
    pc,              \* position of article_chunking.main
    \* ---- search_text.py ----
    articles,        \* main: articles (json.load of INPUT_JSON)
    text_results,    \* hybrid_search: text_results
    vector_results,  \* hybrid_search: vector_results
    results,         \* main: results (value returned by hybrid_search)
    spc,             \* position of search_text.main
    last_seen_ids,   \* hybrid_search: seen_ids as the last call left it
    calls,           \* number of hybrid_search calls made
    first_results,   \* value returned by the first hybrid_search call
    text_embeddings, \* embedding_texts: text_embeddings (the list being built)
    emb_idx,         \* embedding_texts: number of records the loop has consumed
    embeddings,      \* vector_index: embeddings (what embedding_texts returned)
    vindex_fit       \* main: vindex (what VectorSearch.fit was given)

chunk_vars == <<blog_file, chunk_size, chunk_overlap, posts, chunked_posts,
                post_idx, post_text, windows, output_file, pc>>
search_vars == <<articles, text_results, vector_results, results, spc,
                 last_seen_ids, calls, first_results,
                 text_embeddings, emb_idx, embeddings, vindex_fit>>
vars == <<chunk_vars, search_vars>>

-----------------------------------------------------------------------------
(* Bounds of the model *)

MaxLen == 10       \* longest article text, in characters
MaxSize == 4       \* largest window size tried
MaxStep == 4       \* largest step tried
MaxPosts == 2      \* most articles in BLOG_FILE
CorpusSize == 4    \* chunk records in INPUT_JSON
ChunksPerArticle == 2   \* chunk records sharing one article id in INPUT_JSON

(* Program constants *)
TEXT_CHUNK_SIZE == 2000
TEXT_CHUNK_OVERLAP == 1000
NUM_RESULTS == 5

Min(a, b) == IF a <= b THEN a ELSE b

-----------------------------------------------------------------------------
(* Python values *)

\* A str of length n; the character at offset p is written p, so that every
\* slice of a text identifies the offsets it was taken from.
TextOfLen(n) == [p \in 1..n |-> p - 1]

\* seq[lo:hi] for 0 <= lo, with Python's clipping of both ends to len(seq).
PySlice(seq, lo, hi) ==
    LET n == Len(seq)
        a == Min(lo, n)
        b == Min(hi, n)
    IN  IF b <= a THEN <<>> ELSE SubSeq(seq, a + 1, b)

\* Mutant of DictWithout: the key is read but not removed (get instead of pop).
DictKeepAll(d, key) == d

\* dict.copy() followed by pop(key): the dict without that key.
DictWithout(d, key) == [f \in (DOMAIN d) \ {key} |-> d[f]]

\* a.update(b): keys of b are set in a, overriding a's values.
DictUpdate(a, b) ==
    [f \in (DOMAIN a) \cup (DOMAIN b) |-> IF f \in DOMAIN b THEN b[f] ELSE a[f]]

\* An article record as json_create.py writes it (author, date and source_url
\* are strings like title and are represented by title).
Article(k, n) ==
    [id |-> k, title |-> <<"title", k>>, author |-> <<"author", k>>,
     text |-> TextOfLen(n)]

\* The article lists BLOG_FILE can hold: ids are unique across the corpus.
BlogFiles ==
    UNION { { [k \in 1..m |-> Article(k, lens[k])] : lens \in [1..m -> 0..MaxLen] }
            : m \in 0..MaxPosts }

NoFile == <<"no file">>

-----------------------------------------------------------------------------
(* article_chunking.sliding_window *)

\* Mutants of the loop of sliding_window, each a plausible slip in it.

RECURSIVE sliding_window_loop_stride_size(_, _, _, _, _)
\* the window is advanced by its size instead of the step
sliding_window_loop_stride_size(seq, size, step, i, result) ==
    LET n == Len(seq) IN
    IF i >= n
    THEN result
    ELSE LET chunk == PySlice(seq, i, i + size)
             result2 == Append(result, [start |-> i, chunk |-> chunk])
         IN  IF i + size >= n
             THEN result2
             ELSE sliding_window_loop_stride_size(seq, size, step, i + size, result2)

RECURSIVE sliding_window_loop_no_break(_, _, _, _, _)
\* the break is missing: every offset of range(0, n, step) gives a window
sliding_window_loop_no_break(seq, size, step, i, result) ==
    LET n == Len(seq) IN
    IF i >= n
    THEN result
    ELSE LET chunk == PySlice(seq, i, i + size)
             result2 == Append(result, [start |-> i, chunk |-> chunk])
         IN  sliding_window_loop_no_break(seq, size, step, i + step, result2)

RECURSIVE sliding_window_loop_break_early(_, _, _, _, _)
\* the break test is off by one: the loop stops one character short
sliding_window_loop_break_early(seq, size, step, i, result) ==
    LET n == Len(seq) IN
    IF i >= n
    THEN result
    ELSE LET chunk == PySlice(seq, i, i + size)
             result2 == Append(result, [start |-> i, chunk |-> chunk])
         IN  IF i + size + 1 >= n
             THEN result2
             ELSE sliding_window_loop_break_early(seq, size, step, i + step, result2)

RECURSIVE sliding_window_loop_emit_first(_, _, _, _, _)
\* a while True loop that emits before it tests the offset against n
sliding_window_loop_emit_first(seq, size, step, i, result) ==
    LET n == Len(seq)
        chunk == PySlice(seq, i, i + size)
        result2 == Append(result, [start |-> i, chunk |-> chunk])
    IN  IF i + size >= n \/ i + step >= n
        THEN result2
        ELSE sliding_window_loop_emit_first(seq, size, step, i + step, result2)

RECURSIVE sliding_window_loop_break_past(_, _, _, _, _)
\* the break test is strict: a window ending exactly at n does not stop the loop
sliding_window_loop_break_past(seq, size, step, i, result) ==
    LET n == Len(seq) IN
    IF i >= n
    THEN result
    ELSE LET chunk == PySlice(seq, i, i + size)
             result2 == Append(result, [start |-> i, chunk |-> chunk])
         IN  IF i + size > n
             THEN result2
             ELSE sliding_window_loop_break_past(seq, size, step, i + step, result2)

RECURSIVE sliding_window_loop(_, _, _, _, _)
\* for i in range(0, n, step): ... ; i is the loop variable, result the list
sliding_window_loop(seq, size, step, i, result) ==
    LET n == Len(seq) IN
    IF i >= n
    THEN result                               \* range(0, n, step) is exhausted
    ELSE LET chunk == PySlice(seq, i, i + size)
             result2 == Append(result, [start |-> i, chunk |-> chunk])
         IN  IF i + size >= n
             THEN result2                     \* break
             ELSE sliding_window_loop(seq, size, step, i + step, result2)

\* Mutant of sliding_window: the size is not validated.
sliding_window_no_size_check(seq, size, step) ==
    IF step <= 0
    THEN [raised |-> TRUE, value |-> <<>>]
    ELSE [raised |-> FALSE, value |-> sliding_window_loop(seq, size, step, 0, <<>>)]

\* The outcome of a call: raised = TRUE for ValueError, else the list returned.
sliding_window(seq, size, step) ==
    IF size <= 0 \/ step <= 0
    THEN [raised |-> TRUE, value |-> <<>>]
    ELSE [raised |-> FALSE, value |-> sliding_window_loop(seq, size, step, 0, <<>>)]

-----------------------------------------------------------------------------
(* article_chunking.main *)

\* for chunk in chunks: chunk.update(post_copy)
UpdateChunks(chunks, post_copy) ==
    [j \in 1..Len(chunks) |-> DictUpdate(chunks[j], post_copy)]

ChunkInit ==
    /\ blog_file \in BlogFiles
    /\ chunk_size \in -1..MaxSize
    /\ chunk_overlap \in -1..MaxStep
    /\ posts = <<>>
    /\ chunked_posts = <<>>
    /\ post_idx = 0
    /\ post_text = <<>>
    /\ windows = <<>>
    /\ output_file = NoFile
    /\ pc = "load"

\* with open(BLOG_FILE) ... posts = json.load(f); chunked_posts = []
LoadPosts ==
    /\ pc = "load"
    /\ posts' = blog_file
    /\ chunked_posts' = <<>>
    /\ pc' = "loop"
    /\ UNCHANGED <<blog_file, chunk_size, chunk_overlap, post_idx, post_text,
                   windows, output_file>>

\* one iteration of `for post in posts` in which sliding_window returns
ProcessPost ==
    /\ pc = "loop"
    /\ post_idx < Len(posts)
    /\ LET post == posts[post_idx + 1]
           post_copy == DictWithout(post, "text")
           call == sliding_window(post["text"], chunk_size, chunk_overlap)
       IN  /\ ~call.raised
           /\ post_text' = post["text"]
           /\ windows' = call.value
           /\ chunked_posts' = chunked_posts \o UpdateChunks(call.value, post_copy)
    /\ post_idx' = post_idx + 1
    /\ UNCHANGED <<blog_file, chunk_size, chunk_overlap, posts, output_file, pc>>

\* one iteration of `for post in posts` in which sliding_window raises
\* ValueError: the exception leaves main, nothing is written
ProcessPostRaises ==
    /\ pc = "loop"
    /\ post_idx < Len(posts)
    /\ LET post == posts[post_idx + 1]
           call == sliding_window(post["text"], chunk_size, chunk_overlap)
       IN  /\ call.raised
           /\ post_text' = post["text"]
    /\ pc' = "ValueError"
    /\ UNCHANGED <<blog_file, chunk_size, chunk_overlap, posts, chunked_posts,
                   post_idx, windows, output_file>>

\* with open(OUTPUT_FILE, "w") ... json.dump(chunked_posts, f)
SaveChunks ==
    /\ pc = "loop"
    /\ post_idx = Len(posts)
    /\ output_file' = chunked_posts
    /\ pc' = "done"
    /\ UNCHANGED <<blog_file, chunk_size, chunk_overlap, posts, chunked_posts,
                   post_idx, post_text, windows>>

-----------------------------------------------------------------------------
(* search_text *)

\* The chunk records of INPUT_JSON, in file order: the chunks of one article
\* are adjacent and share its id (article_chunking.main copies the id).
ChunkRecord(k) ==
    LET a == ((k - 1) \div ChunksPerArticle) + 1
        s == (k - 1) % ChunksPerArticle
    IN  [id |-> a, title |-> <<"title", a>>, start |-> s, chunk |-> <<a, s>>]

InputJson == [k \in 1..CorpusSize |-> ChunkRecord(k)]

\* What Index.search / VectorSearch.search (minsearch) can return for some
\* query: at most num_results of the indexed documents, each at most once,
\* in any ranking order.
SearchResults(docs, num_results) ==
    LET m == Min(num_results, Len(docs))
        picks == UNION { { p \in [1..k -> 1..Len(docs)] :
                             \A i, j \in 1..k : i # j => p[i] # p[j] }
                         : k \in 0..m }
    IN  { [i \in DOMAIN p |-> docs[p[i]]] : p \in picks }

\* text_search(query, index): index.search(query, num_results=5)
text_search(index) == SearchResults(index, NUM_RESULTS)

\* vector_search(query, vindex, embedding_model): vindex.search(q, num_results=5)
vector_search(vindex) == SearchResults(vindex, NUM_RESULTS)

RECURSIVE dedup_loop_by_record(_, _, _, _)
\* Mutant of the loop of hybrid_search: seen_ids holds whole records, so two
\* chunks of one article both pass.
dedup_loop_by_record(all_results, i, seen_ids, combined_results) ==
    IF i >= Len(all_results)
    THEN combined_results
    ELSE LET result == all_results[i + 1] IN
         IF result \notin seen_ids
         THEN dedup_loop_by_record(all_results, i + 1, seen_ids \cup {result},
                                   Append(combined_results, result))
         ELSE dedup_loop_by_record(all_results, i + 1, seen_ids, combined_results)

RECURSIVE dedup_loop_no_add(_, _, _, _)
\* Mutant of the loop of hybrid_search: seen_ids.add is missing.
dedup_loop_no_add(all_results, i, seen_ids, combined_results) ==
    IF i >= Len(all_results)
    THEN combined_results
    ELSE LET result == all_results[i + 1] IN
         IF result.id \notin seen_ids
         THEN dedup_loop_no_add(all_results, i + 1, seen_ids,
                                Append(combined_results, result))
         ELSE dedup_loop_no_add(all_results, i + 1, seen_ids, combined_results)

RECURSIVE dedup_loop(_, _, _, _)
\* for result in text_results + vector_results: ... ; i is the number of
\* records already visited
dedup_loop(all_results, i, seen_ids, combined_results) ==
    IF i >= Len(all_results)
    THEN combined_results
    ELSE LET result == all_results[i + 1] IN
         IF result.id \notin seen_ids
         THEN dedup_loop(all_results, i + 1, seen_ids \cup {result.id},
                         Append(combined_results, result))
         ELSE dedup_loop(all_results, i + 1, seen_ids, combined_results)

\* Mutant of seen_ids_at_entry: the set is created once (a module-level set or
\* a mutable default argument) and outlives the call.
seen_ids_kept(leftover) == leftover

\* seen_ids = set(): the set a call starts from, whatever an earlier call
\* left in its own seen_ids
seen_ids_at_entry(leftover) == {}

\* Mutant of combine_results: the vector results are put first.
combine_results_vector_first(t_results, v_results, leftover) ==
    dedup_loop(v_results \o t_results, 0, seen_ids_at_entry(leftover), <<>>)

\* the part of hybrid_search after the two searches
combine_results(t_results, v_results, leftover) ==
    dedup_loop(t_results \o v_results, 0, seen_ids_at_entry(leftover), <<>>)

\* seen_ids when the loop of hybrid_search ends
seen_ids_at_return(t_results, v_results, leftover) ==
    seen_ids_at_entry(leftover)
        \cup { (t_results \o v_results)[i].id : i \in 1..Len(t_results \o v_results) }

EMBEDDING_MODEL == "all-MiniLM-L6-v2"

\* model.encode(text): the vector the embedding model gives a text, written
\* as the application of that model to that text
encode(text) == [model |-> EMBEDDING_MODEL, text |-> text]

\* text = d['title'] + ' ' + d['chunk']
embedding_input(d) == d.title \o <<" ">> \o d.chunk

\* Mutant of after_encode_error: the failure is caught and the record skipped
\* (try: ... except: continue).
skip_after_encode_error(k) == [spc |-> "embed", next |-> k + 1]

\* model.encode raises while record k + 1 is encoded: no handler in
\* embedding_texts, vector_index or main, the exception ends the run
after_encode_error(k) == [spc |-> "EncodeError", next |-> k]

NoArray == [returned |-> FALSE, array |-> <<>>]
NoVectorIndex == [built |-> FALSE, vectors |-> <<>>, docs |-> <<>>]

SearchInit ==
    /\ articles = <<>>
    /\ text_results = <<>>
    /\ vector_results = <<>>
    /\ results = <<>>
    /\ spc = "load"
    /\ last_seen_ids = {}
    /\ calls = 0
    /\ first_results = <<>>
    /\ text_embeddings = <<>>
    /\ emb_idx = 0
    /\ embeddings = NoArray
    /\ vindex_fit = NoVectorIndex

\* main: articles = json.load(f); index = text_index(articles);
\* vindex = vector_index(articles, embedding_model) is entered:
\* text_embeddings = []
LoadArticles ==
    /\ spc = "load"
    /\ articles' = InputJson
    /\ text_embeddings' = <<>>
    /\ emb_idx' = 0
    /\ spc' = "embed"
    /\ UNCHANGED <<text_results, vector_results, results, last_seen_ids, calls,
                   first_results, embeddings, vindex_fit>>

\* embedding_texts: one iteration of `for d in texts` in which encode returns
EncodeRecord ==
    /\ spc = "embed"
    /\ emb_idx < Len(articles)
    /\ LET d == articles[emb_idx + 1]
           v == encode(embedding_input(d))
       IN  text_embeddings' = Append(text_embeddings, v)
    /\ emb_idx' = emb_idx + 1
    /\ UNCHANGED <<articles, text_results, vector_results, results, spc,
                   last_seen_ids, calls, first_results, embeddings, vindex_fit>>

\* embedding_texts: one iteration of `for d in texts` in which encode raises
EncodeRaises ==
    /\ spc = "embed"
    /\ emb_idx < Len(articles)
    /\ spc' = after_encode_error(emb_idx).spc
    /\ emb_idx' = after_encode_error(emb_idx).next
    /\ UNCHANGED <<articles, text_results, vector_results, results,
                   last_seen_ids, calls, first_results, text_embeddings,
                   embeddings, vindex_fit>>

\* embedding_texts returns np.array(text_embeddings); vector_index:
\* vindex = VectorSearch(); vindex.fit(embeddings, articles); return vindex
BuildVectorIndex ==
    /\ spc = "embed"
    /\ emb_idx = Len(articles)
    /\ embeddings' = [returned |-> TRUE, array |-> text_embeddings]
    /\ vindex_fit' = [built |-> TRUE, vectors |-> text_embeddings, docs |-> articles]
    /\ spc' = "ready"
    /\ UNCHANGED <<articles, text_results, vector_results, results,
                   last_seen_ids, calls, first_results, text_embeddings, emb_idx>>

\* results = hybrid_search(query, index, vindex, embedding_model)
HybridSearch ==
    /\ spc = "ready"
    /\ \E t_results \in text_search(articles), v_results \in vector_search(articles) :
          /\ text_results' = t_results
          /\ vector_results' = v_results
          /\ results' = combine_results(t_results, v_results, last_seen_ids)
          /\ first_results' = combine_results(t_results, v_results, last_seen_ids)
          /\ last_seen_ids' = seen_ids_at_return(t_results, v_results, last_seen_ids)
    /\ calls' = calls + 1
    /\ spc' = "done"
    /\ UNCHANGED <<articles, text_embeddings, emb_idx, embeddings, vindex_fit>>

\* hybrid_search called once more with the same query: the indices are the
\* same objects and their searches are deterministic, so text_search and
\* vector_search return what they returned to the first call
HybridSearchAgain ==
    /\ spc = "done"
    /\ calls = 1
    /\ text_results' = text_results
    /\ vector_results' = vector_results
    /\ results' = combine_results(text_results, vector_results, last_seen_ids)
    /\ last_seen_ids' = seen_ids_at_return(text_results, vector_results, last_seen_ids)
    /\ calls' = calls + 1
    /\ UNCHANGED <<articles, spc, first_results, text_embeddings, emb_idx,
                   embeddings, vindex_fit>>

SearchIdle ==
    /\ articles = <<>>
    /\ text_results = <<>>
    /\ vector_results = <<>>
    /\ results = <<>>
    /\ spc = "idle"
    /\ last_seen_ids = {}
    /\ calls = 0
    /\ first_results = <<>>
    /\ text_embeddings = <<>>
    /\ emb_idx = 0
    /\ embeddings = NoArray
    /\ vindex_fit = NoVectorIndex

ChunkIdle ==
    /\ blog_file = <<>>
    /\ chunk_size = TEXT_CHUNK_SIZE
    /\ chunk_overlap = TEXT_CHUNK_OVERLAP
    /\ posts = <<>>
    /\ chunked_posts = <<>>
    /\ post_idx = 0
    /\ post_text = <<>>
    /\ windows = <<>>
    /\ output_file = NoFile
    /\ pc = "idle"

-----------------------------------------------------------------------------
Init == ChunkInit /\ SearchIdle

Next ==
    \/ LoadPosts /\ UNCHANGED search_vars
    \/ ProcessPost /\ UNCHANGED search_vars
    \/ ProcessPostRaises /\ UNCHANGED search_vars
    \/ SaveChunks /\ UNCHANGED search_vars

Spec == Init /\ [][Next]_vars

SearchSpecInit == ChunkIdle /\ SearchInit

SearchNext ==
    \/ LoadArticles /\ UNCHANGED chunk_vars
    \/ EncodeRecord /\ UNCHANGED chunk_vars
    \/ EncodeRaises /\ UNCHANGED chunk_vars
    \/ BuildVectorIndex /\ UNCHANGED chunk_vars
    \/ HybridSearch /\ UNCHANGED chunk_vars
    \/ HybridSearchAgain /\ UNCHANGED chunk_vars

SpecSearch == SearchSpecInit /\ [][SearchNext]_vars

-----------------------------------------------------------------------------
(* Properties of sliding_window, read off the last call made by main *)

\* main has called sliding_window at least once and the call returned
Returned == pc \in {"loop", "done"} /\ post_idx > 0

TextLen == Len(post_text)
StartOf(j) == windows[j].start
EndOf(j) == windows[j].start + Len(windows[j].chunk)

\* text[lo:hi] for 0 <= lo <= hi <= len(text), character by character
TextBetween(lo, hi) == [p \in 1..(hi - lo) |-> post_text[lo + p]]

\* ceil(a / b) for a >= 0, b > 0
CeilDiv(a, b) == (a + b - 1) \div b

\* C3: the windows returned start at 0, S, 2S, ... in order, without a skipped
\* or repeated offset, and the chunk of each is text[start : min(start+W, n)].
C3_StartsAndChunks ==
    Returned =>
        \A j \in 1..Len(windows) :
            /\ DOMAIN windows[j] = {"start", "chunk"}
            /\ StartOf(j) = (j - 1) * chunk_overlap
            /\ StartOf(j) < TextLen
            /\ windows[j].chunk =
                   TextBetween(StartOf(j), Min(StartOf(j) + chunk_size, TextLen))

\* witness of C3: the example of the specification, "abcdefghij", W = 4, S = 2
C3_Witness ==
    /\ Returned
    /\ TextLen = 10 /\ chunk_size = 4 /\ chunk_overlap = 2
    /\ Len(windows) = 4
    /\ windows[4] = [start |-> 6, chunk |-> <<6, 7, 8, 9>>]

\* C4 as stated: the last window emitted is the first window of 0, S, 2S, ...
\* with start + W >= len(text); it is always emitted and all earlier windows
\* have start + W < len(text).
C4_Original ==
    Returned =>
        /\ Len(windows) >= 1
        /\ \A j \in 1..Len(windows) : StartOf(j) = (j - 1) * chunk_overlap
        /\ StartOf(Len(windows)) + chunk_size >= TextLen
        /\ \A j \in 1..(Len(windows) - 1) : StartOf(j) + chunk_size < TextLen

\* index k of the first window of 0, S, 2S, ... with k*S + W >= n
FirstReaching ==
    CHOOSE k \in 0..TextLen :
        /\ k * chunk_overlap + chunk_size >= TextLen
        /\ \A j \in 0..(k - 1) : j * chunk_overlap + chunk_size < TextLen

\* C4 amended: the windows emitted are those of 0, S, 2S, ... up to the first
\* with start + W >= len(text), which is itself emitted exactly when its start
\* is < len(text) (always so for a non-empty text with S <= W); all windows
\* before it have start + W < len(text) and none follows it.
C4_LastWindow ==
    Returned =>
        LET K == FirstReaching IN
        /\ \A j \in 1..Len(windows) : StartOf(j) = (j - 1) * chunk_overlap
        /\ Len(windows) = IF K * chunk_overlap < TextLen THEN K + 1 ELSE K
        /\ \A j \in 1..Len(windows) :
               (StartOf(j) + chunk_size >= TextLen) <=> (j = K + 1)
        /\ (TextLen > 0 /\ chunk_overlap <= chunk_size) =>
               /\ Len(windows) = K + 1
               /\ StartOf(K + 1) + chunk_size >= TextLen

\* witness of C4: a run where the first window reaching the end starts past
\* the text and is not emitted (n = 5, W = 1, S = 3: windows at 0 and 3)
C4_Witness ==
    /\ Returned
    /\ TextLen = 5 /\ chunk_size = 1 /\ chunk_overlap = 3
    /\ Len(windows) = 2

\* C5: for S < W the spans [start, start+len(chunk)) of the windows cover
\* [0, n) exactly, consecutive spans leave no gap, and the last span ends at n.
C5_Coverage ==
    (Returned /\ chunk_overlap < chunk_size) =>
        /\ UNION { StartOf(j)..(EndOf(j) - 1) : j \in 1..Len(windows) }
               = 0..(TextLen - 1)
        /\ \A j \in 1..(Len(windows) - 1) : StartOf(j + 1) <= EndOf(j)
        /\ Len(windows) > 0 => EndOf(Len(windows)) = TextLen

\* witness of C5: a text whose length is not aligned to the step (n = 6,
\* W = 3, S = 2: spans [0,3) [2,5) [4,6))
C5_Witness ==
    /\ Returned
    /\ TextLen = 6 /\ chunk_size = 3 /\ chunk_overlap = 2
    /\ Len(windows) = 3 /\ EndOf(3) = 6 /\ Len(windows[3].chunk) = 2

\* the article ids that have at least one record in a list of chunk records
IdsIn(records) == { records[i].id : i \in 1..Len(records) }

\* C6 as stated: an empty text gives one empty chunk at start 0, and every
\* article of the input has a chunk record in the output.
C6_Original ==
    /\ (Returned /\ TextLen = 0) => windows = <<[start |-> 0, chunk |-> <<>>]>>
    /\ pc = "done" => \A k \in 1..Len(posts) : posts[k].id \in IdsIn(output_file)

\* C6 amended: an empty text gives no chunk at all, so the articles that
\* contribute a chunk record to the output are exactly those with a non-empty
\* text.
C6_EmptyText ==
    /\ (Returned /\ TextLen = 0) => windows = <<>>
    /\ (Returned /\ TextLen > 0) => Len(windows) >= 1
    /\ pc = "done" =>
           \A k \in 1..Len(posts) :
               (posts[k].id \in IdsIn(output_file)) <=> (Len(posts[k].text) > 0)

\* witness of C6: a finished run over an article with empty text and one with
\* text, where only the second appears in the output
C6_Witness ==
    /\ pc = "done"
    /\ Len(posts) = 2
    /\ posts[1].text = <<>> /\ posts[2].text # <<>>
    /\ IdsIn(output_file) = {posts[2].id}

\* C7 as stated: for S < W, exactly 1 chunk when n <= W and
\* ceil((n - W) / S) + 1 chunks when n >= W.
C7_Original ==
    (Returned /\ chunk_overlap < chunk_size) =>
        /\ TextLen <= chunk_size => Len(windows) = 1
        /\ TextLen >= chunk_size =>
               Len(windows) = CeilDiv(TextLen - chunk_size, chunk_overlap) + 1

\* C7 amended: for S < W, no chunk when n = 0, exactly 1 chunk when
\* 0 < n <= W, and ceil((n - W) / S) + 1 chunks when n >= W.
C7_Count ==
    (Returned /\ chunk_overlap < chunk_size) =>
        /\ TextLen = 0 => Len(windows) = 0
        /\ (0 < TextLen /\ TextLen <= chunk_size) => Len(windows) = 1
        /\ TextLen >= chunk_size =>
               Len(windows) = CeilDiv(TextLen - chunk_size, chunk_overlap) + 1

\* witness of C7: n - W not a multiple of S (n = 6, W = 3, S = 2: 3 chunks)
C7_Witness ==
    /\ Returned
    /\ TextLen = 6 /\ chunk_size = 3 /\ chunk_overlap = 2
    /\ Len(windows) = CeilDiv(3, 2) + 1

BadParameters == chunk_size <= 0 \/ chunk_overlap <= 0

\* C8: with size <= 0 or step <= 0 every call of sliding_window raises before
\* producing a window, for every text; the raise ends the chunk build and
\* nothing is written to the output file.
C8_InvalidParameter ==
    /\ BadParameters =>
           /\ post_idx = 0 /\ windows = <<>> /\ chunked_posts = <<>>
           /\ (Len(blog_file) > 0 => pc # "done")
           /\ (pc = "loop" /\ Len(posts) > 0) =>
                  sliding_window(posts[1].text, chunk_size, chunk_overlap).raised
    /\ pc = "ValueError" => (BadParameters /\ output_file = NoFile)

\* witness of C8: the build aborted on an empty first text, with a second
\* article left unprocessed and no output file
C8_Witness ==
    /\ pc = "ValueError"
    /\ post_text = <<>>
    /\ Len(posts) = 2
    /\ output_file = NoFile

\* the positions of article k's chunk records in chunked_posts
RecordsOf(k) == { i \in 1..Len(chunked_posts) : chunked_posts[i].id = posts[k].id }

\* C9: the chunk records are, article by article in input order and by
\* increasing start, one per window of the article's text; each holds the
\* window's start and chunk and every article field but text, unchanged; the
\* articles loaded are not modified.
C9_FanOut ==
    (pc \in {"loop", "done"}) =>
        /\ posts = blog_file
        /\ pc = "done" => output_file = chunked_posts
        /\ \A i \in 1..Len(chunked_posts) :
               \E k \in 1..post_idx :
                   /\ chunked_posts[i].id = posts[k].id
                   /\ DOMAIN chunked_posts[i] =
                          ((DOMAIN posts[k]) \ {"text"}) \cup {"start", "chunk"}
                   /\ \A f \in (DOMAIN posts[k]) \ {"text"} :
                          chunked_posts[i][f] = posts[k][f]
        /\ \A k \in 1..post_idx :
               LET w == sliding_window(posts[k].text, chunk_size, chunk_overlap).value
               IN  /\ Cardinality(RecordsOf(k)) = Len(w)
                   /\ \A j \in 1..Len(w) :
                          \E i \in RecordsOf(k) :
                              /\ chunked_posts[i].start = w[j].start
                              /\ chunked_posts[i].chunk = w[j].chunk
        /\ \A i, j \in 1..Len(chunked_posts) :
               i < j =>
                   LET ki == CHOOSE k \in 1..Len(posts) : posts[k].id = chunked_posts[i].id
                       kj == CHOOSE k \in 1..Len(posts) : posts[k].id = chunked_posts[j].id
                   IN  \/ ki < kj
                       \/ ki = kj /\ chunked_posts[i].start < chunked_posts[j].start

\* witness of C9: a finished run over two articles each cut into several
\* windows
C9_Witness ==
    /\ pc = "done"
    /\ Len(posts) = 2
    /\ Cardinality(RecordsOf(1)) >= 2
    /\ Cardinality(RecordsOf(2)) >= 2
    /\ Len(output_file) = Cardinality(RecordsOf(1)) + Cardinality(RecordsOf(2))

-----------------------------------------------------------------------------
(* Properties of hybrid_search *)

Concatenation == text_results \o vector_results

IdsOf(records) == { records[i].id : i \in 1..Len(records) }

\* positions of the concatenation that carry an id not seen at an earlier one
FirstPositions ==
    { i \in 1..Len(Concatenation) :
          \A j \in 1..(i - 1) : Concatenation[j].id # Concatenation[i].id }

\* the k-th smallest element of a set of positions
KthOf(positions, k) ==
    CHOOSE i \in positions : Cardinality({ j \in positions : j <= i }) = k

\* C1: the result is the concatenation lexical ++ vector reduced to the first
\* record of every id, in the order of the concatenation; no id occurs twice.
C1_FirstOccurrences ==
    spc = "done" =>
        /\ Len(results) = Cardinality(FirstPositions)
        /\ \A k \in 1..Len(results) :
               results[k] = Concatenation[KthOf(FirstPositions, k)]
        /\ \A i, j \in 1..Len(results) : i # j => results[i].id # results[j].id
        /\ IdsOf(results) = IdsOf(Concatenation)

\* witness of C1: an id returned by both searches with different chunk
\* records, of which the result holds the lexical one
C1_Witness ==
    /\ spc = "done"
    /\ Len(text_results) >= 2 /\ Len(vector_results) >= 2
    /\ \E i \in 1..Len(text_results), j \in 1..Len(vector_results) :
           /\ text_results[i].id = vector_results[j].id
           /\ text_results[i] # vector_results[j]
           /\ \E k \in 1..Len(results) : results[k] = text_results[i]
           /\ \A k \in 1..Len(results) : results[k] # vector_results[j]

\* the first position of id x in a list of records that contains it
PositionOf(records, x) ==
    CHOOSE i \in 1..Len(records) :
        /\ records[i].id = x
        /\ \A j \in 1..(i - 1) : records[j].id # x

Occurrences(records, x) ==
    Cardinality({ i \in 1..Len(records) : records[i].id = x })

\* C2 as stated: an id found by both searches occurs once in the result, at
\* the position it held in the lexical result list.
C2_Original ==
    spc = "done" =>
        \A x \in IdsOf(text_results) \cap IdsOf(vector_results) :
            /\ Occurrences(results, x) = 1
            /\ PositionOf(results, x) = PositionOf(text_results, x)

\* C2 amended: an id found by both searches occurs once in the result, at the
\* position given by the number of distinct ids that precede its first
\* occurrence in the lexical list; that is its lexical position exactly when
\* the lexical records before it carry pairwise distinct ids.
C2_Priority ==
    spc = "done" =>
        \A x \in IdsOf(text_results) \cap IdsOf(vector_results) :
            LET p == PositionOf(text_results, x)
                before == { text_results[i].id : i \in 1..(p - 1) }
            IN  /\ Occurrences(results, x) = 1
                /\ PositionOf(results, x) = Cardinality(before) + 1
                /\ results[PositionOf(results, x)] = text_results[p]
                /\ (PositionOf(results, x) = p) <=> (Cardinality(before) = p - 1)

\* witness of C2: an id found by both searches that follows two lexical
\* chunks of one article, and so moves up in the result
C2_Witness ==
    /\ spc = "done"
    /\ \E x \in IdsOf(text_results) \cap IdsOf(vector_results) :
           /\ PositionOf(text_results, x) = 3
           /\ PositionOf(results, x) = 2

\* C10: the result holds between 0 and 2 x top_k records, as many as there
\* are distinct ids in the two lists, and fewer than the two lists together
\* whenever an id occurs more than once across them.
C10_Count ==
    spc = "done" =>
        /\ Len(text_results) <= NUM_RESULTS /\ Len(vector_results) <= NUM_RESULTS
        /\ Len(results) >= 0 /\ Len(results) <= 2 * NUM_RESULTS
        /\ Len(results) = Cardinality(IdsOf(Concatenation))
        /\ (\E i, j \in 1..Len(Concatenation) :
                i # j /\ Concatenation[i].id = Concatenation[j].id)
               => Len(results) < Len(text_results) + Len(vector_results)

\* witness of C10: both searches return as many records as they can and the
\* two lists overlap, so the result is shorter than the two lists together
C10_Witness ==
    /\ spc = "done"
    /\ Len(text_results) = Min(NUM_RESULTS, Len(articles))
    /\ Len(vector_results) = Min(NUM_RESULTS, Len(articles))
    /\ Len(results) > 0
    /\ Len(results) < Len(text_results) + Len(vector_results)

FullLength(j) == Len(windows[j].chunk) = chunk_size

VectorFor(d) ==
    [model |-> EMBEDDING_MODEL,
     text |-> <<d.title[1], d.title[2], " ", d.chunk[1], d.chunk[2]>>]

\* C13: embedding_texts returns one vector per chunk record, the i-th being
\* the encoding of record i's title + ' ' + chunk, or it fails and returns
\* no array; no record is ever skipped, and the vector index is built from
\* that array and the same records in the same order.
C13_Alignment ==
    /\ Len(text_embeddings) = emb_idx
    /\ \A i \in 1..Len(text_embeddings) : text_embeddings[i] = VectorFor(articles[i])
    /\ embeddings.returned =>
           /\ Len(embeddings.array) = Len(articles)
           /\ \A i \in 1..Len(articles) : embeddings.array[i] = VectorFor(articles[i])
    /\ spc = "EncodeError" => (~embeddings.returned /\ ~vindex_fit.built)
    /\ vindex_fit.built =>
           /\ embeddings.returned
           /\ vindex_fit.vectors = embeddings.array
           /\ vindex_fit.docs = articles
    /\ spc \in {"ready", "done"} => vindex_fit.built

\* witness of C13: the vector index built over all chunk records, two of
\* which belong to one article and differ only in their chunk
C13_Witness ==
    /\ vindex_fit.built
    /\ Len(vindex_fit.vectors) = Len(InputJson)
    /\ Len(vindex_fit.vectors) >= 2
    /\ vindex_fit.docs[1].id = vindex_fit.docs[2].id
    /\ vindex_fit.vectors[1] # vindex_fit.vectors[2]

====
